---- MODULE Spec2Model ----
(***************************************************************************)
(* Model of the snake4 host program (src/main.rs): struct Game, its        *)
(* per-frame update and the main loop's game-over handling.                *)
(*                                                                         *)
(* Time is counted in units of 0.05 s, so that BASE_UPDATE_INTERVAL (0.5 s)*)
(* is 10 units and MIN_MOVE_INTERVAL (0.1 s) is 2 units; f32 rounding is   *)
(* not modelled.  The clock get_time() advances by the frame time that     *)
(* get_frame_time() reports.  The snake3 crate (SnakeGame, Snake, Apple)   *)
(* is not part of the sources: its operations are modelled from their      *)
(* description.                                                            *)
(***************************************************************************)
EXTENDS Integers, Sequences, FiniteSets, TLC

\* ------------------------------------------------------------------ bounds
\* Largest number of columns and of rows the viewport gives the grid
\* (the smallest is 1: a window at least two cells wide and high).
MaxCols == 2
MaxRows == 2
\* The clock is not advanced past MaxTime units on a grid of two or more
\* rows, nor past MaxLongTime units on a grid of one row (where the snake
\* has few places to be and long stalls can be followed).
MaxTime == 12
MaxLongTime == 22

\* --------------------------------------------------------------- constants
BASE_UPDATE_INTERVAL == 10
MIN_MOVE_INTERVAL == 2

\* Frame times get_frame_time() may return, in units: a short frame, a
\* medium one, and a stall longer than BASE_UPDATE_INTERVAL.
Deltas == {1, 4, 12}

Keys == {"Right", "Left", "Down", "Up"}

VARIABLES
    columns, rows,          \* main's grid dimensions, passed to Game::new
    body,                   \* snake_game.snake.body, head first
    direction,              \* snake_game.snake heading
    growing,                \* snake_game.snake pending-growth flag
    entities,               \* snake_game.entities
    update_timer,           \* Game.update_timer
    last_move_time,         \* Game.last_move_time
    score,                  \* Game.score
    high_score,             \* Game.high_score
    now,                    \* the host clock, get_time()
    pc,                     \* position of main's loop body
    pressed,                \* keys newly pressed in the last update
    should_move             \* should_move of the last update

vars == <<columns, rows, body, direction, growing, entities, update_timer,
          last_move_time, score, high_score, now, pc, pressed, should_move>>

\* The last clock reading explored on the grid in use.
Horizon == IF rows = 1 THEN MaxLongTime ELSE MaxTime

Pos(px, py) == [x |-> px, y |-> py]

Max(a, b) == IF a >= b THEN a ELSE b

\* ------------------------------------------------------------ snake3 crate
\* SnakeGame::new(columns, rows, None, None): a one-cell snake in the middle
\* of the grid heading Right, no pending growth, no entities.
SnakeGameNew(c, r) ==
    [body |-> <<Pos(c \div 2, r \div 2)>>, direction |-> "Right",
     growing |-> FALSE, entities |-> <<>>]

\* One cell in the heading d.
Translate(p, d) ==
    CASE d = "Right" -> Pos(p.x + 1, p.y)
      [] d = "Left"  -> Pos(p.x - 1, p.y)
      [] d = "Up"    -> Pos(p.x, p.y + 1)
      [] d = "Down"  -> Pos(p.x, p.y - 1)

\* Snake::advance: prepend the new head; keep the tail once if growth is
\* pending, else drop it.
Advance(b, d, g) ==
    LET new_head == Translate(Head(b), d)
    IN  [body |-> IF g THEN <<new_head>> \o b
                       ELSE <<new_head>> \o SubSeq(b, 1, Len(b) - 1),
         growing |-> FALSE]

WallCollision(b, c, r) ==
    \/ Head(b).x < 0 \/ Head(b).x >= c
    \/ Head(b).y < 0 \/ Head(b).y >= r

SelfCollision(b) == \E i \in 2..Len(b) : b[i] = Head(b)

\* SnakeGame::check_collisions on the body after advance.
CheckCollisions(b, c, r) == WallCollision(b, c, r) \/ SelfCollision(b)

Apple(p) == [kind |-> "Apple", pos |-> p]

\* Indices of the entities under the head.
HitIndices(b, es) == {i \in 1..Len(es) : es[i].pos = Head(b)}

RemoveAt(s, i) == SubSeq(s, 1, i - 1) \o SubSeq(s, i + 1, Len(s))

\* SnakeGame::check_entity_collision: the first entity under the head is
\* removed from the collection and returned.
CheckEntityCollision(b, es) ==
    IF HitIndices(b, es) = {}
    THEN [hit |-> <<>>, entities |-> es]
    ELSE LET i == CHOOSE k \in HitIndices(b, es) :
                        \A l \in HitIndices(b, es) : k <= l
         IN  [hit |-> <<es[i]>>, entities |-> RemoveAt(es, i)]

Cells(c, r) == {Pos(px, py) : px \in 0..(c - 1), py \in 0..(r - 1)}

\* SnakeGame::generate_entity(named!(Apple)): the collections that can
\* result from appending one apple at an arbitrary cell of the grid.
GenerateEntity(es, c, r) == {Append(es, Apple(p)) : p \in Cells(c, r)}

\* ----------------------------------------------------------------- Game
\* Game::new
GameNew(c, r) ==
    [snake_game |-> SnakeGameNew(c, r), update_timer |-> 0,
     last_move_time |-> 0, score |-> 0, high_score |-> 0]

\* Game::handle_input: the heading after the key poll (first pressed key in
\* the order Right, Left, Down, Up wins; Down sets Up and Up sets Down).
HandleInput(keys, d) ==
    IF "Right" \in keys THEN "Right"
    ELSE IF "Left" \in keys THEN "Left"
    ELSE IF "Down" \in keys THEN "Up"
    ELSE IF "Up" \in keys THEN "Down"
    ELSE d

\* Game::handle_input's return value.
InputMoved(keys) ==
    "Right" \in keys \/ "Left" \in keys \/ "Down" \in keys \/ "Up" \in keys

\* Mutant: the timer cadence compared with the wrong interval.
ShouldMoveWrongInterval(input_moved, current_time, lmt, timer) ==
    \/ (input_moved /\ (current_time - lmt) >= MIN_MOVE_INTERVAL)
    \/ (~input_moved /\ timer >= MIN_MOVE_INTERVAL)

\* Mutant: the timer cadence not gated on "no input this tick".
ShouldMoveUngated(input_moved, current_time, lmt, timer) ==
    \/ (input_moved /\ (current_time - lmt) >= MIN_MOVE_INTERVAL)
    \/ timer >= BASE_UPDATE_INTERVAL

\* Mutant: the timer cadence left out of the decision.
ShouldMoveInputOnly(input_moved, current_time, lmt, timer) ==
    input_moved /\ (current_time - lmt) >= MIN_MOVE_INTERVAL

\* The move decision of Game::update.
ShouldMove(input_moved, current_time, lmt, timer) ==
    \/ (input_moved /\ (current_time - lmt) >= MIN_MOVE_INTERVAL)
    \/ (~input_moved /\ timer >= BASE_UPDATE_INTERVAL)

\* Mutant: the score counted on every move.
ScoreAfterAnyMove(hit, s) == s + 1

\* The score after the apple check of Game::update.
ScoreAfter(hit, s) ==
    IF hit # <<>> /\ hit[1].kind = "Apple" THEN s + 1 ELSE s

\* Mutant: grow never called.
GrowAfterNever(hit, g) == g

\* The pending-growth flag after the apple check (Snake::grow sets it).
GrowAfter(hit, g) ==
    IF hit # <<>> /\ hit[1].kind = "Apple" THEN TRUE ELSE g

\* Mutant: the spawn step left out.
SpawnNever(es, c, r) == {es}

\* Mutant: an apple spawned after every move.
SpawnAlways(es, c, r) == GenerateEntity(es, c, r)

\* The collections the spawn step of Game::update can leave.
SpawnIfEmpty(es, c, r) ==
    IF es = <<>> THEN GenerateEntity(es, c, r) ELSE {es}

\* Mutant: the timer zeroed after every move.
TimerAfterMoveReset(input_moved, timer) == 0

\* Mutant: every whole interval taken off the timer at once.
TimerAfterMoveDrain(input_moved, timer) ==
    IF input_moved THEN 0 ELSE timer % BASE_UPDATE_INTERVAL

\* Mutant: the interval taken off the timer after an input move too.
TimerAfterMoveAlwaysDecrement(input_moved, timer) ==
    timer - BASE_UPDATE_INTERVAL

\* update_timer after an executed move.
TimerAfterMove(input_moved, timer) ==
    IF input_moved THEN 0 ELSE timer - BASE_UPDATE_INTERVAL

\* Mutant: the snake advanced before the key poll, in the stale heading.
MoveSnakeOldHeading(b, d, g) == Advance(b, direction, g)

\* The snake after the advance call of an executed move.
MoveSnake(b, d, g) == Advance(b, d, g)

\* Mutant: only the wall verdict acted on.
GameOverWallOnly(b, c, r) == WallCollision(b, c, r)

\* Mutant: collisions checked on the body as it was before advance.
GameOverBeforeAdvance(b, c, r) == CheckCollisions(body, c, r)

\* The collision verdict Game::update acts on.
GameOver(b, c, r) == CheckCollisions(b, c, r)

\* Mutant: the apple check and the bookkeeping run before the collision
\* verdict is acted on.
updateEatsBeforeVerdict(d, keys) ==
    /\ pc = "running"
    /\ now + d <= Horizon
    /\ LET timer == update_timer + d
           current_time == now + d
           input_moved == InputMoved(keys)
           dir == HandleInput(keys, direction)
           move == ShouldMove(input_moved, current_time, last_move_time, timer)
           adv == MoveSnake(body, dir, growing)
           col == CheckEntityCollision(adv.body, entities)
       IN  /\ now' = current_time
           /\ pressed' = keys
           /\ direction' = dir
           /\ should_move' = move
           /\ high_score' = high_score
           /\ UNCHANGED <<columns, rows>>
           /\ IF ~move
              THEN /\ update_timer' = timer
                   /\ pc' = "running"
                   /\ UNCHANGED <<body, growing, entities, last_move_time, score>>
              ELSE /\ body' = adv.body
                   /\ growing' = GrowAfter(col.hit, adv.growing)
                   /\ score' = ScoreAfter(col.hit, score)
                   /\ entities' \in SpawnIfEmpty(col.entities, columns, rows)
                   /\ last_move_time' = current_time
                   /\ update_timer' = TimerAfterMove(input_moved, timer)
                   /\ pc' = IF GameOver(adv.body, columns, rows)
                            THEN "over" ELSE "running"

\* Game::update(get_frame_time()) with the keys newly pressed this frame.
update(d, keys) ==
    /\ pc = "running"
    /\ now + d <= Horizon
    /\ LET timer == update_timer + d
           current_time == now + d
           input_moved == InputMoved(keys)
           dir == HandleInput(keys, direction)
           move == ShouldMove(input_moved, current_time, last_move_time, timer)
           adv == MoveSnake(body, dir, growing)
           col == CheckEntityCollision(adv.body, entities)
       IN  /\ now' = current_time
           /\ pressed' = keys
           /\ direction' = dir
           /\ should_move' = move
           /\ high_score' = high_score
           /\ UNCHANGED <<columns, rows>>
           /\ IF ~move
              THEN /\ update_timer' = timer
                   /\ pc' = "running"
                   /\ UNCHANGED <<body, growing, entities, last_move_time, score>>
              ELSE IF GameOver(adv.body, columns, rows)
              THEN /\ update_timer' = timer
                   /\ body' = adv.body
                   /\ growing' = adv.growing
                   /\ pc' = "over"
                   /\ UNCHANGED <<entities, last_move_time, score>>
              ELSE /\ body' = adv.body
                   /\ growing' = GrowAfter(col.hit, adv.growing)
                   /\ score' = ScoreAfter(col.hit, score)
                   /\ entities' \in SpawnIfEmpty(col.entities, columns, rows)
                   /\ last_move_time' = current_time
                   /\ update_timer' = TimerAfterMove(input_moved, timer)
                   /\ pc' = "running"

\* What is_key_pressed can report in one frame: no key, one key, or two
\* keys at once.
KeyPresses == {ks \in SUBSET Keys : Cardinality(ks) <= 1}
                  \cup {{"Right", "Left"}, {"Down", "Up"}}

Tick == \E d \in Deltas, keys \in KeyPresses : update(d, keys)

\* The high score main folds on a game over.
FoldedHighScore(hs, s) == Max(hs, s)

\* main: game.high_score = game.high_score.max(game.score)
FoldHighScore ==
    /\ pc = "over"
    /\ high_score' = FoldedHighScore(high_score, score)
    /\ pc' = "reset"
    /\ UNCHANGED <<columns, rows, body, direction, growing, entities,
                   update_timer, last_move_time, score, now, pressed,
                   should_move>>

\* Mutant: the session reset in place, its clock fields left as they were.
NewSessionKeepsClock ==
    /\ pc = "reset"
    /\ LET g == GameNew(columns, rows)
       IN  /\ body' = g.snake_game.body
           /\ direction' = g.snake_game.direction
           /\ growing' = g.snake_game.growing
           /\ entities' = g.snake_game.entities
           /\ score' = g.score
           /\ high_score' = g.high_score
    /\ pc' = "running"
    /\ UNCHANGED <<columns, rows, now, pressed, should_move, update_timer,
                   last_move_time>>

\* main: game = Game::new(columns, rows)
NewSession ==
    /\ pc = "reset"
    /\ LET g == GameNew(columns, rows)
       IN  /\ body' = g.snake_game.body
           /\ direction' = g.snake_game.direction
           /\ growing' = g.snake_game.growing
           /\ entities' = g.snake_game.entities
           /\ update_timer' = g.update_timer
           /\ last_move_time' = g.last_move_time
           /\ score' = g.score
           /\ high_score' = g.high_score
    /\ pc' = "running"
    /\ UNCHANGED <<columns, rows, now, pressed, should_move>>

\* main before its loop: the grid from the viewport, then Game::new.
Init ==
    /\ columns \in 1..MaxCols
    /\ rows \in 1..MaxRows
    /\ LET g == GameNew(columns, rows)
       IN  /\ body = g.snake_game.body
           /\ direction = g.snake_game.direction
           /\ growing = g.snake_game.growing
           /\ entities = g.snake_game.entities
           /\ update_timer = g.update_timer
           /\ last_move_time = g.last_move_time
           /\ score = g.score
           /\ high_score = g.high_score
    /\ now = 0
    /\ pc = "running"
    /\ pressed = {}
    /\ should_move = FALSE

Next == Tick \/ FoldHighScore \/ NewSession

Spec == Init /\ [][Next]_vars

\* ------------------------------------------------------- scenario of C8
\* A 10x10 grid, reached from Game::new(10, 10) by a move Left at which the
\* apple is spawned at (6,5) and a move Right back to (5,5), the second one
\* taken when the clock reads MaxTime - 6 (three more moves fit).
InitScenario ==
    /\ columns = 10
    /\ rows = 10
    /\ body = <<Pos(5, 5)>>
    /\ direction = "Right"
    /\ growing = FALSE
    /\ entities = <<Apple(Pos(6, 5))>>
    /\ update_timer = 0
    /\ last_move_time = MaxTime - 6
    /\ score = 0
    /\ high_score = 0
    /\ now = MaxTime - 6
    /\ pc = "running"
    /\ pressed = {"Right"}
    /\ should_move = TRUE

SpecScenario == InitScenario /\ [][Next]_vars

\* ------------------------------------------------------------- scheduling
\* main before its loop, on a viewport that gives a grid of one row.
InitOneRow == Init /\ rows = 1

\* main's loop never stops: every frame runs update, and a game over is
\* always followed by the fold and the new session.  (Tick is enabled as
\* long as the clock has not reached the horizon.)
SpecFair ==
    /\ InitOneRow
    /\ [][Next]_vars
    /\ WF_vars(Tick)
    /\ WF_vars(FoldHighScore)
    /\ WF_vars(NewSession)

\* ---------------------------------------------------------------- claims
InGrid(p) == 0 <= p.x /\ p.x < columns /\ 0 <= p.y /\ p.y < rows

\* Body length counting a pending growth as one segment to come.
EffLen(b, g) == Len(b) + (IF g THEN 1 ELSE 0)

\* C1: the high score never decreases, across ticks, game overs and session
\* resets: no step of the program lowers Game.high_score.
C1_HighScoreNeverDecreases == [][high_score' >= high_score]_vars

\* C2: once the host has handled a game over, the high score is
\* max(high score before the game over, score at the game over).  When the
\* new session is about to be built (pc = "reset") high_score already holds
\* the fold of line 152, so Max(high_score, score) is that maximum.
C2_HighScoreAfterGameOver ==
    [][pc = "reset" => high_score' = Max(high_score, score)]_vars

\* C3: the step that follows a game over replaces the session: score,
\* update_timer and last_move_time are 0, body and heading are the initial
\* ones, there is no entity, and the grid dimensions never change.
C3_SessionReplaced ==
    [][/\ columns' = columns
       /\ rows' = rows
       /\ pc = "over" => pc' = "reset"
       /\ pc = "reset" =>
            /\ pc' = "running"
            /\ score' = 0
            /\ update_timer' = 0
            /\ last_move_time' = 0
            /\ body' = <<Pos(columns \div 2, rows \div 2)>>
            /\ direction' = "Right"
            /\ growing' = FALSE
            /\ entities' = <<>>]_vars

\* A fresh session after a game over, before its first tick.
C3_Witness ==
    /\ pc = "running" /\ should_move /\ now > 0
    /\ last_move_time = 0 /\ update_timer = 0 /\ score = 0
    /\ body = <<Pos(columns \div 2, rows \div 2)>> /\ entities = <<>>

\* C4: a tick with no key newly pressed and update_timer + delta below
\* BASE_UPDATE_INTERVAL leaves body, score, entities and last_move_time
\* alone and reports continue.
C4_IdleTickChangesNothing ==
    [][(/\ pc = "running"
        /\ pressed' = {}
        /\ update_timer + (now' - now) < BASE_UPDATE_INTERVAL)
       => /\ body' = body
          /\ score' = score
          /\ entities' = entities
          /\ last_move_time' = last_move_time
          /\ pc' = "running"]_vars

\* An idle tick taken while a grown snake and an apple are on the grid.
C4_Witness ==
    /\ pc = "running" /\ pressed = {} /\ ~should_move
    /\ update_timer > 0 /\ update_timer < BASE_UPDATE_INTERVAL
    /\ Len(body) >= 2 /\ Len(entities) = 1 /\ last_move_time > 0

\* C5: a tick moves the snake iff (a) a key was newly pressed and
\* current_time - last_move_time >= MIN_MOVE_INTERVAL, or (b) no key was
\* newly pressed and update_timer + delta >= BASE_UPDATE_INTERVAL.
C5_MoveIffCadence ==
    [][pc = "running" /\ now' # now =>
        /\ (body' # body) <=>
             \/ (pressed' # {} /\ now' - last_move_time >= MIN_MOVE_INTERVAL)
             \/ (pressed' = {} /\ update_timer + (now' - now)
                                      >= BASE_UPDATE_INTERVAL)
        /\ should_move' <=> (body' # body)]_vars

\* A press inside the cooldown with the timer past BASE_UPDATE_INTERVAL:
\* no move.
C5_Witness ==
    /\ pc = "running" /\ pressed # {} /\ ~should_move
    /\ update_timer >= BASE_UPDATE_INTERVAL
    /\ now - last_move_time < MIN_MOVE_INTERVAL

\* C6: a tick reports game over iff it executed a move and the head is then
\* outside the grid or on another body segment; no move, no game over.
C6_GameOverIffCollision ==
    (pc # "running") <=>
        /\ should_move
        /\ \/ ~InGrid(Head(body))
           \/ \E i \in 2..Len(body) : body[i] = Head(body)

\* A game over by self collision inside the grid.
C6_Witness ==
    /\ pc = "over" /\ InGrid(Head(body))
    /\ \E i \in 2..Len(body) : body[i] = Head(body)

\* C7: in a tick, score goes up by exactly 1 and one segment of growth is
\* caused iff the tick executed a non-terminal move whose new head is on a
\* live entity; in every other tick score is unchanged and no growth is
\* caused.
C7_ScoreAndGrowthIffEaten ==
    [][pc = "running" =>
        LET landed == /\ body' # body
                      /\ pc' = "running"
                      /\ \E i \in 1..Len(entities) :
                            entities[i].pos = Head(body')
        IN  /\ landed => /\ score' = score + 1
                         /\ EffLen(body', growing') = EffLen(body, growing) + 1
                         /\ growing'
            /\ ~landed => /\ score' = score
                          /\ EffLen(body', growing') = EffLen(body, growing)]_vars

\* The second apple has just been eaten.
C7_Witness ==
    pc = "running" /\ should_move /\ growing /\ score = 2 /\ Len(body) = 2

\* The state the scenario starts from.
ScenarioState ==
    /\ pc = "running" /\ columns = 10 /\ rows = 10
    /\ body = <<Pos(5, 5)>> /\ direction = "Right" /\ ~growing
    /\ entities = <<Apple(Pos(6, 5))>> /\ score = 0

\* The step is a tick in which Right alone is pressed and a move is made.
InputMoveRight == pressed' = {"Right"} /\ should_move'

\* C8 as stated: from the scenario state one input-driven move Right ends
\* the tick with head (6,5), the apple gone, score 1, body length 2 and a
\* new apple.
C8_ScenarioAsStated ==
    [][ScenarioState /\ InputMoveRight =>
        /\ Head(body') = Pos(6, 5)
        /\ score' = 1
        /\ Len(body') = 2
        /\ Len(entities') = 1
        /\ pc' = "running"]_vars

\* C8 amended: the tick ends with head (6,5), score 1, exactly one apple in
\* the collection (spawned at any cell), body length still 1 and the growth
\* pending.
C8_ScenarioAmended ==
    [][ScenarioState /\ InputMoveRight =>
        /\ body' = <<Pos(6, 5)>>
        /\ growing'
        /\ score' = 1
        /\ Len(entities') = 1
        /\ entities'[1].kind = "Apple"
        /\ entities'[1].pos \in Cells(10, 10)
        /\ last_move_time' = now'
        /\ update_timer' = 0
        /\ pc' = "running"]_vars

\* The scenario's move has been made and the new apple is not where the old
\* one was.
C8_Witness ==
    /\ columns = 10 /\ rows = 10 /\ pc = "running"
    /\ pressed = {"Right"} /\ should_move
    /\ body = <<Pos(6, 5)>> /\ growing /\ score = 1
    /\ Len(entities) = 1 /\ entities[1].pos # Pos(6, 5)

\* C9: an executed move puts the new head one cell from the old head in the
\* current heading; without pending growth every other segment takes the
\* place of its predecessor and the length is unchanged; with pending growth
\* the whole old body follows the new head, the length grows by 1 and the
\* flag is used up (it is set again only by an apple eaten in this tick).
C9_AdvanceShape ==
    [][pc = "running" /\ should_move' /\ now' # now =>
        /\ Head(body') = Translate(Head(body), direction')
        /\ ~growing => /\ Len(body') = Len(body)
                       /\ \A i \in 2..Len(body) : body'[i] = body[i - 1]
        /\ growing => /\ Len(body') = Len(body) + 1
                      /\ Tail(body') = body
                      /\ growing' <=> (score' = score + 1)]_vars

\* A snake of three segments has just moved without growing.
C9_Witness ==
    pc = "running" /\ should_move /\ Len(body) = 3 /\ ~growing /\ score = 2

\* C10: at every tick boundary of a live session the body is not empty and
\* every segment is inside the grid.
C10_BodyInGrid ==
    pc = "running" =>
        /\ Len(body) >= 1
        /\ \A i \in 1..Len(body) : InGrid(body[i])

\* A live snake of three segments after a move.
C10_Witness ==
    pc = "running" /\ should_move /\ Len(body) >= 3 /\ last_move_time = now

\* The step is a tick (an update call; the clock has advanced).
IsTick == pc = "running" /\ now' # now

\* The frame time of the step.
StepDelta == now' - now

\* C11: after an executed non-terminal move update_timer is 0 if a key was
\* pressed and (timer at the decision) - BASE_UPDATE_INTERVAL if not, and
\* last_move_time is the current time; on a tick with no move
\* last_move_time is unchanged and update_timer has grown by delta.
C11_MoveBookkeeping ==
    [][IsTick =>
        /\ (should_move' /\ pc' = "running") =>
             /\ last_move_time' = now'
             /\ pressed' # {} => update_timer' = 0
             /\ pressed' = {} =>
                  update_timer' = update_timer + StepDelta
                                      - BASE_UPDATE_INTERVAL
        /\ ~should_move' =>
             /\ last_move_time' = last_move_time
             /\ update_timer' = update_timer + StepDelta]_vars

\* A timer-triggered move that overshot the interval: a residue is left.
C11_Witness ==
    /\ pc = "running" /\ should_move /\ pressed = {}
    /\ update_timer > 0 /\ update_timer < BASE_UPDATE_INTERVAL
    /\ last_move_time = now

\* C12: a tick in which exactly one key D is newly pressed sets the heading
\* to D; a tick with no press leaves the heading alone.
C12_PressForwardedUnchanged ==
    [][IsTick =>
        /\ \A D \in Keys : pressed' = {D} => direction' = D
        /\ pressed' = {} => direction' = direction]_vars

Opposite(d) ==
    CASE d = "Right" -> "Left"
      [] d = "Left"  -> "Right"
      [] d = "Up"    -> "Down"
      [] d = "Down"  -> "Up"

\* The snake is travelling in the heading d: its head is one cell from its
\* neck in d (for a one-cell snake, d is its heading).
Travelling(d) ==
    IF Len(body) >= 2 THEN Translate(body[2], d) = body[1] ELSE direction = d

HeadOnBody(b) == \E i \in 2..Len(b) : b[i] = Head(b)

\* C13: a tick that moves on a press of the key opposite to travel ends in
\* a self collision if the body has three or more segments (or two and a
\* pending growth), and in no self collision otherwise.
C13_ReversalCollides ==
    [][(/\ IsTick
        /\ should_move'
        /\ \E d \in Keys : Travelling(d) /\ pressed' = {Opposite(d)})
       => IF Len(body) >= 3 \/ (Len(body) = 2 /\ growing)
          THEN pc' = "over" /\ HeadOnBody(body')
          ELSE ~HeadOnBody(body')]_vars

\* C14: a tick advances the snake by at most one cell whatever delta is; a
\* timer-triggered move decided on update_timer >= 2 * BASE_UPDATE_INTERVAL
\* leaves update_timer >= BASE_UPDATE_INTERVAL; and an interval is taken
\* off the timer only on a tick with no key pressed.
C14_NoCatchUp ==
    [][IsTick =>
        /\ body' # body => Head(body') = Translate(Head(body), direction')
        /\ (/\ should_move' /\ pressed' = {}
            /\ update_timer + StepDelta >= 2 * BASE_UPDATE_INTERVAL)
           => update_timer' >= BASE_UPDATE_INTERVAL
        /\ update_timer' < update_timer + StepDelta /\ update_timer' # 0
           => pressed' = {}
        /\ update_timer' < update_timer + StepDelta
           => update_timer' \in {0, update_timer + StepDelta
                                       - BASE_UPDATE_INTERVAL}]_vars

\* A stall of two intervals or more was answered by one move: a whole
\* interval is still on the timer.
C14_Witness ==
    /\ pc = "running" /\ should_move /\ pressed = {}
    /\ update_timer >= BASE_UPDATE_INTERVAL /\ last_move_time = now

\* C15: a tick whose move is terminal does nothing after the collision
\* check: entities and score are unchanged, no growth is pending, the timer
\* has only grown by delta and last_move_time is unchanged; the fold that
\* follows takes that unchanged score.
C15_TerminalTickStops ==
    [][/\ (pc = "running" /\ pc' = "over") =>
             /\ entities' = entities
             /\ score' = score
             /\ ~growing'
             /\ update_timer' = update_timer + StepDelta
             /\ last_move_time' = last_move_time
       /\ pc = "over" =>
             /\ score' = score
             /\ high_score' = Max(high_score, score)]_vars

\* A terminal move whose head came to rest on the apple: it is not eaten.
C15_Witness ==
    /\ pc = "over" /\ score >= 1
    /\ \E i \in 1..Len(entities) : entities[i].pos = Head(body)

\* C16: the entity collection never holds more than one entity; it is
\* empty from session creation until the first executed non-terminal move,
\* and holds exactly one Apple after every executed non-terminal move.
C16_OneApple ==
    /\ entities = <<>>
    /\ [][/\ Len(entities') <= 1
          /\ pc = "reset" => entities' = <<>>
          /\ (IsTick /\ should_move' /\ pc' = "running") =>
                /\ Len(entities') = 1
                /\ entities'[1].kind = "Apple"
          /\ (IsTick /\ ~(should_move' /\ pc' = "running")) =>
                entities' = entities]_vars

\* An apple has just been eaten and another one is in the collection.
C16_Witness ==
    /\ pc = "running" /\ should_move /\ growing /\ score >= 1
    /\ Len(entities) = 1 /\ last_move_time = now

\* C17: a tick with a key press inside the cooldown overwrites the heading
\* with the pressed direction and changes nothing else: body, score,
\* entities and last_move_time are unchanged and update_timer keeps its
\* accumulated value.
C17_CooldownPress ==
    [][(IsTick /\ pressed' # {}
             /\ now' - last_move_time < MIN_MOVE_INTERVAL) =>
        /\ \A D \in Keys : pressed' = {D} => direction' = D
        /\ body' = body
        /\ score' = score
        /\ entities' = entities
        /\ last_move_time' = last_move_time
        /\ update_timer' = update_timer + StepDelta]_vars

\* C18: body length plus pending growth is the initial length (1) plus the
\* score, in every state; within a session a tick leaves the score or adds
\* 1 to it.
C18_LengthIsScore ==
    /\ [](EffLen(body, growing) = 1 + score)
    /\ [][pc = "running" => score' \in {score, score + 1}]_vars

\* Three apples eaten: three segments and one to come.
C18_Witness ==
    pc = "running" /\ score = 3 /\ Len(body) = 3 /\ growing

\* C19: update_timer is never negative.
C19_TimerNonNegative == update_timer >= 0

\* A timer-triggered move decided on exactly BASE_UPDATE_INTERVAL.
C19_Witness ==
    /\ pc = "running" /\ should_move /\ pressed = {}
    /\ update_timer = 0 /\ last_move_time = now

\* C20: every stall ends: from every state whose last tick made no move
\* and which has at least BASE_UPDATE_INTERVAL of clock left before the
\* horizon, a later tick executes a move, whatever keys are pressed.
C20_MoveEventually ==
    (~should_move /\ now + BASE_UPDATE_INTERVAL <= Horizon) ~> should_move

\* A move made after a press inside the cooldown had put it off.
C20_Witness ==
    /\ pc = "running" /\ should_move /\ pressed = {}
    /\ update_timer = 1 /\ now > BASE_UPDATE_INTERVAL /\ now = last_move_time

====
